---- MODULE Spec2Model ----
(***************************************************************************)
(* The launcher front end (src/src/App.tsx): the React state of App and    *)
(* its asynchronous handlers.  Every `await invoke(...)` is a point where  *)
(* other handlers may run, so each handler is split into one action per    *)
(* continuation.  The Tauri back end is not part of the sources: what an   *)
(* invoke returns (a value, or a rejection) is an input of the action that *)
(* resumes the handler.                                                    *)
(***************************************************************************)
EXTENDS Integers, Sequences, FiniteSets, TLC

\* ------------------------------------------------------------------ bounds
MaxUrls == 2    \* longest download_urls list of a manifest entry
MaxOps  == 2    \* handler invocations in flight at the same time
MaxVersion == 5 \* versions of a game published
\* "Giữ lại 3 backup gần nhất" (part_000:37).
MaxBackups == 3

\* ------------------------------------------------------------------ data
GameIds == {"g1", "g2"}
NoGame  == "null"

\* Rejections of download_game_with_progress / download_game_update: the
\* recoverable failures of one attempt (connection error, non-success
\* response, per-attempt timeout).
AttemptTimeout == "Timeout"
DownloadErrors == {"NetworkError", "HTTPStatusError", AttemptTimeout}
\* Rejection of get_games.
RefreshError   == "ManifestError"

\* A download_urls list: names are the declaration indices.
UrlList(flags) == [k \in 1..Len(flags) |-> [name |-> k, primary |-> flags[k]]]
UrlLists == {UrlList(f) : f \in UNION {[1..n -> BOOLEAN] : n \in 0..MaxUrls}}

\* No tick of the connection check has run: pc is the await the callback is
\* suspended at, isOfflineMode the value its closure holds, result what
\* check_network_status answered.
IdleProbe == [pc |-> "idle", isOfflineMode |-> FALSE, result |-> "none"]

\* GameInfo as the front end uses it: the id and whether executable_path is
\* set.  The fields the manifest fixes per id are looked up in `manifest`.
GameInfo(id, exe) == [id |-> id, executable_path |-> exe]
GameLists == {{GameInfo(g, f[g]) : g \in GameIds} : f \in [GameIds -> BOOLEAN]}

VARIABLES
  manifest,          \* per id: download_urls, repair_enabled, status
  games,             \* useState<GameInfo[]>
  selectedGame,      \* useState<GameInfo | null>
  downloading,       \* useState<string | null>
  downloadProgress,  \* useState<{[gameId]: {progress, urlName}}>
  isLoading,         \* useState(true)
  isOfflineMode,     \* useState(false)
  error,             \* useState<string | null>
  ops,               \* the handler invocations in flight
  finished,          \* the invocation that returned last
  loader,            \* the loadLauncher invocation
  probe              \* the checkConnectionInterval callback invocation

\* The state of the earlier version of App kept in src/unnamed/part_001,
\* where it differs from App.tsx: one progress record for the whole app, and
\* the intervals that simulate the progress.
VARIABLES
  ops001,               \* the handler invocations in flight (part_001)
  downloadProgress001,  \* useState<DownloadProgress | null> (part_001:59)
  intervals001          \* the live setInterval timers (part_001:230)

vars001 == <<ops001, downloadProgress001, intervals001>>

\* The versions: the manifest in the cloud, the copy of it the front end
\* holds in its games list, and the state the back end keeps on disk.
VARIABLES
  catalog,      \* per id: "version" of the manifest entry
  gameVersion,  \* per id: GameInfo.version of the entry in `games`
  installed,    \* per id: the version in the live install directory, 0: none
  backups,      \* per id: the versions of the backups kept, oldest first
  job           \* per invocation: the stage of its download_game_update

backend == <<catalog, installed, backups, job>>

\* The sidebar: the status of each entry of the games list and the label
\* rendered for it.
VARIABLES
  gameStatus,   \* per id: GameInfo.status of the entry in `games`
  statusLabel   \* per id: the text of <span className="status ...">

sidebar == <<gameStatus, statusLabel>>

\* The locals of the running loadLauncher.
VARIABLES
  loadGamesResult,  \* const gamesResult of loadLauncher (App.tsx:209)
  scanError,        \* the catch block at App.tsx:217 has run
  loadOfflineGames  \* const offlineGames of loadLauncher (App.tsx:193, 243)

loadLocals == <<loadGamesResult, scanError, loadOfflineGames>>

\* The window buttons and the settings.
VARIABLES
  minimizeToTray,   \* useState(false) (App.tsx:76)
  windowOp,         \* the running handleMinimize or handleClose
  currentLanguage,  \* useState<Language>('en') (useLanguage.ts:130)
  storage           \* localStorage['launcher_language'], "null": absent

shell == <<minimizeToTray, windowOp, currentLanguage, storage>>

\* What the handlers of App.tsx do not touch.
others == <<vars001, backend, gameVersion, sidebar, loadLocals, shell>>

vars == <<manifest, games, selectedGame, downloading, downloadProgress,
          isLoading, isOfflineMode, error, ops, finished, loader, probe,
          others>>

\* --------------------------------------------------- handleDownloadGame
\* The comparator of the sort at App.tsx:269.
CompareUrls(a, b) ==
  IF a.primary /\ ~b.primary THEN -1
  ELSE IF ~a.primary /\ b.primary THEN 1
  ELSE 0

\* Array.prototype.sort is stable: an element goes before the first element
\* the comparator puts it strictly before.
RECURSIVE InsertUrl(_, _)
InsertUrl(x, s) ==
  IF s = <<>> THEN <<x>>
  ELSE IF CompareUrls(x, Head(s)) < 0 THEN <<x>> \o s
  ELSE <<Head(s)>> \o InsertUrl(x, Tail(s))

RECURSIVE SortFrom(_, _)
SortFrom(urls, acc) ==
  IF urls = <<>> THEN acc
  ELSE SortFrom(Tail(urls), InsertUrl(Head(urls), acc))

\* Variant: the list is used in declaration order.
SortedUrlsUnsorted(urls) == urls

\* const sortedUrls = [...game.download_urls].sort(...)
SortedUrls(urls) == SortFrom(urls, <<>>)

\* ------------------------------------------------------- invocations
\* One record per handler invocation: gameId (all the handlers read of their
\* game parameter is game.id and what the manifest fixes for it), i,
\* sortedUrls and lastError are the handler's locals, pc the await it is
\* suspended at.  The other fields record what the invocation did: the
\* sources it invoked the download for (attempts), the errors it caught
\* (reasons) and, once it has returned, its outcome and the reasons its alert
\* shows (report).
IdleOp ==
  [kind |-> "none", gameId |-> NoGame, pc |-> "idle", i |-> 0,
   sortedUrls |-> <<>>, lastError |-> "", attempts |-> <<>>,
   reasons |-> <<>>, outcome |-> "none", report |-> <<>>]

Slots == 1..MaxOps
Free(s) == ops[s].pc = "idle"
InFlight(s) == ~Free(s)
\* A new invocation takes the first free record.
FirstFree(s) == Free(s) /\ \A r \in Slots : r < s => ~Free(r)

\* The invocation in record s returns, its record being o by then.
Return(s, o, outcome, report) ==
  /\ finished' = [o EXCEPT !.pc = "done", !.outcome = outcome,
                           !.report = report]
  /\ ops' = [ops EXCEPT ![s] = IdleOp]

NoProgress == [progress |-> -1, urlName |-> 0]
\* delete newProgress[game.id]
ClearProgress(dp, id) == [dp EXCEPT ![id] = NoProgress]
\* [game.id]: { progress: 0, urlName: downloadUrl.name }
InitialProgress(dp, id, url) ==
  [dp EXCEPT ![id] = [progress |-> 0, urlName |-> url.name]]

\* The main panel is rendered (neither the loading nor the error screen).
PanelShown == ~isLoading /\ ~(error # "null" /\ ~isOfflineMode)

\* Variant: setDownloading(game.id) runs before the test of download_urls.
DownloadingMarkedFirst(d, id) == id

\* The early return is before setDownloading (App.tsx:261-266).
DownloadingWithoutSources(d, id) == d

\* --------------------------------------------------- handleDownloadGame
\* handleDownloadGame up to its first await (App.tsx:260-293).
HandleDownloadGame(s, game) ==
  LET urls == manifest[game.id].download_urls IN
  IF urls = <<>>
  THEN /\ downloading' = DownloadingWithoutSources(downloading, game.id)
       /\ Return(s, [IdleOp EXCEPT !.kind = "install", !.gameId = game.id],
                 "nosources", <<>>)
       /\ UNCHANGED <<others, manifest, games, selectedGame, downloadProgress,
                      isLoading, isOfflineMode, error, loader, probe>>
  ELSE LET sorted == SortedUrls(urls) IN
       /\ downloading' = game.id
       /\ downloadProgress' = InitialProgress(downloadProgress, game.id, sorted[1])
       /\ ops' = [ops EXCEPT ![s] =
                    [IdleOp EXCEPT !.kind = "install", !.gameId = game.id,
                                   !.pc = "download", !.i = 1,
                                   !.sortedUrls = sorted,
                                   !.attempts = <<sorted[1].name>>]]
       /\ UNCHANGED <<others, manifest, games, selectedGame, isLoading, isOfflineMode,
                      error, finished, loader, probe>>

\* btn-install (App.tsx:972-976): shown for a selected game that is not
\* coming_soon and has no executable_path, disabled while it is downloading.
ClickInstall(s) ==
  /\ PanelShown /\ FirstFree(s)
  /\ selectedGame.id # NoGame
  /\ manifest[selectedGame.id].status # "coming_soon"
  /\ ~selectedGame.executable_path
  /\ downloading # selectedGame.id
  /\ HandleDownloadGame(s, selectedGame)

\* download-btn of a primary source (App.tsx:1048-1060).
ClickAutoDownload(s) ==
  /\ PanelShown /\ FirstFree(s)
  /\ selectedGame.id # NoGame
  /\ \E k \in DOMAIN manifest[selectedGame.id].download_urls :
        manifest[selectedGame.id].download_urls[k].primary
  /\ downloading # selectedGame.id
  /\ HandleDownloadGame(s, selectedGame)

\* Variant: the first failure ends the loop.
HasNextSourceNever(i, n) == FALSE

\* if (i < sortedUrls.length - 1) continue;   (i counts from 1 here)
HasNextSource(i, n) == i < n

\* The catch block of the loop and, after the last source, the code after the
\* loop (App.tsx:312-341).
\* Variant: the alert lists the error of every attempt.
FailureReportEveryReason(lastError, reasons) == reasons

\* The reasons shown by the alert after the last source failed:
\* `Last error: ${lastError}`.
FailureReport(lastError, reasons) == <<lastError>>

CatchAttempt(s, err) ==
  LET o == [ops[s] EXCEPT !.lastError = err,
                          !.reasons = Append(ops[s].reasons, err)]
      n == Len(o.sortedUrls) IN
  IF HasNextSource(o.i, n)
  THEN LET j == o.i + 1 IN
       /\ ops' = [ops EXCEPT ![s] =
                    [o EXCEPT !.i = j, !.pc = "download",
                              !.attempts = Append(o.attempts, o.sortedUrls[j].name)]]
       /\ downloadProgress' = InitialProgress(downloadProgress, o.gameId, o.sortedUrls[j])
       /\ UNCHANGED <<downloading, finished>>
  ELSE /\ downloadProgress' = ClearProgress(downloadProgress, o.gameId)
       /\ downloading' = NoGame
       /\ Return(s, o, "failed", FailureReport(o.lastError, o.reasons))

\* download_game_with_progress resolves: get_games is invoked.
DownloadResolved(s) ==
  /\ ops[s].kind = "install" /\ ops[s].pc = "download"
  /\ ops' = [ops EXCEPT ![s].pc = "refresh"]
  /\ UNCHANGED <<others, manifest, games, selectedGame, downloading, downloadProgress,
                 isLoading, isOfflineMode, error, finished, loader, probe>>

\* download_game_with_progress rejects.
DownloadRejected(s) ==
  /\ ops[s].kind = "install" /\ ops[s].pc = "download"
  /\ \E err \in DownloadErrors : CatchAttempt(s, err)
  /\ UNCHANGED <<others, manifest, games, selectedGame, isLoading, isOfflineMode,
                 error, loader, probe>>


\* The success path returns without a call of setDownloading.
DownloadingAfterSuccess(d) == d

\* get_games resolves after a download: the success path (App.tsx:295-310).
RefreshResolved(s) ==
  /\ ops[s].kind = "install" /\ ops[s].pc = "refresh"
  /\ \E updatedGames \in GameLists :
       /\ games' = updatedGames
       /\ downloading' = DownloadingAfterSuccess(downloading)
       /\ Return(s, ops[s], "success", <<>>)
  /\ downloadProgress' = ClearProgress(downloadProgress, ops[s].gameId)
  /\ UNCHANGED <<others, manifest, selectedGame, isLoading, isOfflineMode, error,
                 loader, probe>>

\* get_games rejects after a download: the await is inside the try block, so
\* the catch block of the loop runs.
RefreshRejected(s) ==
  /\ ops[s].kind = "install" /\ ops[s].pc = "refresh"
  /\ CatchAttempt(s, RefreshError)
  /\ UNCHANGED <<others, manifest, games, selectedGame, isLoading, isOfflineMode,
                 error, loader, probe>>

\* handleGameSelect (App.tsx:563-565).
HandleGameSelect ==
  /\ PanelShown
  /\ \E game \in games : selectedGame' = game
  /\ UNCHANGED <<others, manifest, games, downloading, downloadProgress, isLoading,
                 isOfflineMode, error, ops, finished, loader, probe>>

\* The logo's onClick (App.tsx:653-656).
LogoClick ==
  /\ PanelShown
  /\ selectedGame' = GameInfo(NoGame, FALSE)
  /\ UNCHANGED <<others, manifest, games, downloading, downloadProgress, isLoading,
                 isOfflineMode, error, ops, finished, loader, probe>>

\* ------------------------------------- handleCheckUpdates, handleGameUpdate
\* btn-update (App.tsx:954-959): handleCheckUpdates up to its await.
ClickCheckUpdates(s) ==
  /\ PanelShown /\ FirstFree(s)
  /\ selectedGame.id # NoGame
  /\ manifest[selectedGame.id].status # "coming_soon"
  /\ selectedGame.executable_path
  /\ ops' = [ops EXCEPT ![s] = [IdleOp EXCEPT !.kind = "update",
                                  !.gameId = selectedGame.id,
                                  !.pc = "check"]]
  /\ UNCHANGED <<others, manifest, games, selectedGame, downloading, downloadProgress,
                 isLoading, isOfflineMode, error, finished, loader, probe>>

\* check_game_updates resolves; confirm() is the user's answer.  With an
\* update to apply, handleGameUpdate runs up to its await (App.tsx:375-381).
CheckResolvedWith(s, needs_update, confirm) ==
  /\ ops[s].kind = "update" /\ ops[s].pc = "check"
  /\ IF needs_update /\ confirm
     THEN /\ downloading' = ops[s].gameId
          /\ ops' = [ops EXCEPT ![s].pc = "update"]
          /\ UNCHANGED finished
     ELSE /\ Return(s, ops[s],
                    IF needs_update THEN "declined" ELSE "uptodate", <<>>)
          /\ UNCHANGED downloading
  /\ UNCHANGED <<others, manifest, games, selectedGame, downloadProgress, isLoading,
                 isOfflineMode, error, loader, probe>>

\* The same with any answer of the back end.
CheckResolved(s) ==
  \E needs_update \in BOOLEAN, confirm \in BOOLEAN :
    CheckResolvedWith(s, needs_update, confirm)

\* check_game_updates rejects (App.tsx:370-372).
CheckRejected(s) ==
  /\ ops[s].kind = "update" /\ ops[s].pc = "check"
  /\ Return(s, ops[s], "checkFailed", <<>>)
  /\ UNCHANGED <<others, manifest, games, selectedGame, downloading, downloadProgress,
                 isLoading, isOfflineMode, error, loader, probe>>

\* download_game_update resolves: get_games is invoked.
UpdateResolvedCore(s) ==
  /\ ops[s].kind = "update" /\ ops[s].pc = "update"
  /\ ops' = [ops EXCEPT ![s].pc = "updateRefresh"]
  /\ UNCHANGED <<manifest, games, selectedGame, downloading, downloadProgress,
                 isLoading, isOfflineMode, error, finished, loader, probe>>

UpdateResolved(s) == UpdateResolvedCore(s) /\ UNCHANGED others

\* Variant: the games list is emptied when the update fails.
GamesAfterUpdateFailureCleared(g) == {}

\* The catch block of handleGameUpdate has no call of setGames.
GamesAfterUpdateFailure(g) == g

\* download_game_update, or the get_games after it, rejects: the catch
\* block, then finally (App.tsx:386-391).
UpdateRejectedCore(s) ==
  /\ ops[s].kind = "update" /\ ops[s].pc \in {"update", "updateRefresh"}
  /\ games' = GamesAfterUpdateFailure(games)
  /\ downloading' = NoGame
  /\ \E err \in IF ops[s].pc = "update" THEN DownloadErrors ELSE {RefreshError} :
       Return(s, [ops[s] EXCEPT !.lastError = err, !.reasons = <<err>>],
              "failed", <<>>)
  /\ UNCHANGED <<manifest, selectedGame, downloadProgress, isLoading,
                 isOfflineMode, error, loader, probe>>

UpdateRejected(s) == UpdateRejectedCore(s) /\ UNCHANGED others

\* get_games resolves after an update: setGames, then finally.
UpdateRefreshResolvedCore(s) ==
  /\ ops[s].kind = "update" /\ ops[s].pc = "updateRefresh"
  /\ \E updatedGames \in GameLists :
       /\ games' = updatedGames
       /\ Return(s, ops[s], "success", <<>>)
  /\ downloading' = NoGame
  /\ UNCHANGED <<manifest, selectedGame, downloadProgress, isLoading,
                 isOfflineMode, error, loader, probe>>

UpdateRefreshResolved(s) == UpdateRefreshResolvedCore(s) /\ UNCHANGED others

\* --------------------------------------------------------- handleRepairGame
\* Variant: handleRepairGame without its first line.
RepairAllowedAlways(game) == TRUE

\* if (!game.repair_enabled) return;
RepairAllowed(game) == manifest[game.id].repair_enabled

\* handleRepairGame up to its await (App.tsx:394-400).
HandleRepairGame(s, game) ==
  IF ~RepairAllowed(game)
  THEN UNCHANGED vars
  ELSE /\ ops' = [ops EXCEPT ![s] = [IdleOp EXCEPT !.kind = "repair",
                                       !.gameId = game.id,
                                       !.pc = "repair"]]
       /\ UNCHANGED <<others, manifest, games, selectedGame, downloading,
                      downloadProgress, isLoading, isOfflineMode, error,
                      finished, loader, probe>>

\* btn-repair (App.tsx:961-968).
ClickRepair(s) ==
  /\ PanelShown /\ FirstFree(s)
  /\ selectedGame.id # NoGame
  /\ manifest[selectedGame.id].status # "coming_soon"
  /\ selectedGame.executable_path
  /\ manifest[selectedGame.id].repair_enabled
  /\ HandleRepairGame(s, selectedGame)

\* The repair button of the social sidebar (App.tsx:1114-1122).
ClickSocialRepair(s) ==
  /\ PanelShown /\ FirstFree(s)
  /\ selectedGame.id # NoGame
  /\ HandleRepairGame(s, selectedGame)

\* handleSocialLink (App.tsx:422-428): open(link.url) changes no state.
HandleSocialLink(s) ==
  /\ PanelShown /\ FirstFree(s)
  /\ \E action \in {"repair", "open"} :
       IF action = "repair" /\ selectedGame.id # NoGame
       THEN HandleRepairGame(s, selectedGame)
       ELSE UNCHANGED vars

\* repair_game resolves or rejects (App.tsx:402-410): an alert either way.
RepairReturned(s) ==
  /\ ops[s].kind = "repair" /\ ops[s].pc = "repair"
  /\ \E result \in {"repaired", "repairErrors", "repairFailed"} :
       Return(s, ops[s], result, <<>>)
  /\ UNCHANGED <<others, manifest, games, selectedGame, downloading, downloadProgress,
                 isLoading, isOfflineMode, error, loader, probe>>

\* ---------------------------------------------------------- scan_local_games
\* The games list of a back end with these versions installed:
\* executable_path is set for the games that have a live install.
GamesOnDisk(inst) == {GameInfo(g, inst[g] # 0) : g \in GameIds}

\* The status the scan gives an entry: coming_soon, then update_available,
\* then installed, then available.
DisplayStatus(comingSoon, isInstalled, isOlder) ==
  IF comingSoon THEN "coming_soon"
  ELSE IF isInstalled /\ isOlder THEN "update_available"
  ELSE IF isInstalled THEN "installed"
  ELSE "available"

\* The status of game g on disk and in the manifest.
ScannedStatus(g) ==
  DisplayStatus(manifest[g].status = "coming_soon", installed[g] # 0,
                installed[g] < catalog[g])

\* ------------------------------------------------------------- loadLauncher
\* What get_offline_games may return: a cached list, possibly empty.
OfflineLists == GameLists \cup {{}}

\* The values of GameInfo.status, and the statuses of a cached list.
Statuses == {"available", "coming_soon", "installed", "update_available"}
CachedStatuses == [GameIds -> Statuses]

\* gamesResult of loadLauncher before get_games has returned.
NoResult == [games |-> {}, status |-> [g \in GameIds |-> "null"]]

LoadOthers ==
  <<vars001, backend, gameVersion, statusLabel, shell, manifest,
    selectedGame, downloading, downloadProgress, ops, finished, probe>>

\* The reload button and the retry button call loadLauncher (App.tsx:612,
\* 836); it runs to its first await (App.tsx:179-184).
LoadLauncher ==
  /\ ~isLoading /\ loader = "idle"
  /\ isLoading' = TRUE
  /\ loader' = "net"
  /\ loadGamesResult' = NoResult
  /\ scanError' = FALSE
  /\ loadOfflineGames' = NoResult
  /\ UNCHANGED <<games, gameStatus, isOfflineMode, error>>
  /\ UNCHANGED LoadOthers

\* Variant: the catch block of loadLauncher leaves the mode as it is.
LoadCatchSameMode ==
  /\ error' = "null"
  /\ loader' = "catchOfflineGames"
  /\ UNCHANGED <<games, gameStatus, isLoading, isOfflineMode, loadLocals>>

\* The catch block of loadLauncher up to its await (App.tsx:237-243).
LoadCatch ==
  /\ isOfflineMode' = TRUE
  /\ error' = "null"
  /\ loader' = "catchOfflineGames"
  /\ UNCHANGED <<games, gameStatus, isLoading, loadLocals>>

\* check_network_status returns (App.tsx:184-209).
LoadNetworkReturned ==
  /\ loader = "net"
  /\ \E r \in {"online", "offline", "rejected"} :
       CASE r = "online" ->
              /\ loader' = "games"
              /\ UNCHANGED <<games, gameStatus, isLoading, isOfflineMode,
                             error, loadLocals>>
         [] r = "offline" ->
              /\ isOfflineMode' = TRUE
              /\ error' = "null"
              /\ loader' = "offlineGames"
              /\ UNCHANGED <<games, gameStatus, isLoading, loadLocals>>
         [] OTHER -> LoadCatch
  /\ UNCHANGED LoadOthers

\* get_offline_games returns on the offline path (App.tsx:193-197).
LoadOfflineGamesReturned ==
  /\ loader = "offlineGames"
  /\ \/ \E offlineGames \in OfflineLists, cached \in CachedStatuses :
          /\ loadOfflineGames' = [games |-> offlineGames, status |-> cached]
          /\ games' = offlineGames
          /\ gameStatus' = cached
          /\ loader' = "offlineLinks"
          /\ UNCHANGED <<isLoading, isOfflineMode, error, loadGamesResult,
                         scanError>>
     \/ LoadCatch
  /\ UNCHANGED LoadOthers

\* get_social_links returns on the offline path (App.tsx:197-205).
LoadOfflineLinksReturned ==
  /\ loader = "offlineLinks"
  /\ \/ /\ isLoading' = FALSE
        /\ loader' = "idle"
        /\ UNCHANGED <<games, gameStatus, isOfflineMode, error, loadLocals>>
     \/ LoadCatch
  /\ UNCHANGED LoadOthers

\* get_games returns the entries of the manifest (App.tsx:209-214).
LoadGamesReturned ==
  /\ loader = "games"
  /\ \/ /\ \E list \in GameLists :
             loadGamesResult' =
               [games |-> list,
                status |-> [g \in GameIds |-> manifest[g].status]]
        /\ loader' = "scan"
        /\ UNCHANGED <<games, gameStatus, isLoading, isOfflineMode, error,
                       scanError, loadOfflineGames>>
     \/ LoadCatch
  /\ UNCHANGED LoadOthers

\* Variant: a failing scan is thrown on to the catch block of loadLauncher.
ScanCatchThrown ==
  /\ scanError' = TRUE
  /\ isOfflineMode' = TRUE
  /\ error' = "null"
  /\ loader' = "catchOfflineGames"
  /\ UNCHANGED <<games, gameStatus, isLoading, loadGamesResult,
                 loadOfflineGames>>

\* The catch block of the scan: the list of the manifest is shown and
\* loadLauncher goes on to get_social_links (App.tsx:217-223).
ScanCatch ==
  /\ scanError' = TRUE
  /\ games' = loadGamesResult.games
  /\ gameStatus' = loadGamesResult.status
  /\ loader' = "links"
  /\ UNCHANGED <<isLoading, isOfflineMode, error, loadGamesResult,
                 loadOfflineGames>>

\* scan_local_games returns: the scanned list is shown, or the catch block of
\* the scan runs; get_social_links is invoked (App.tsx:213-223).
LoadScanReturned ==
  /\ loader = "scan"
  /\ \/ /\ games' = GamesOnDisk(installed)
        /\ gameStatus' = [g \in GameIds |-> ScannedStatus(g)]
        /\ loader' = "links"
        /\ UNCHANGED <<isLoading, isOfflineMode, error, loadLocals>>
     \/ ScanCatch
  /\ UNCHANGED LoadOthers

\* get_social_links returns on the online path (App.tsx:223-232).
LoadLinksReturned ==
  /\ loader = "links"
  /\ \/ /\ loader' = "startup"
        /\ UNCHANGED <<games, gameStatus, isLoading, isOfflineMode, error,
                       loadLocals>>
     \/ LoadCatch
  /\ UNCHANGED LoadOthers

\* get_startup_status returns (App.tsx:232-236).
LoadStartupReturned ==
  /\ loader = "startup"
  /\ \/ /\ isOfflineMode' = FALSE
        /\ isLoading' = FALSE
        /\ loader' = "idle"
        /\ UNCHANGED <<games, gameStatus, error, loadLocals>>
     \/ LoadCatch
  /\ UNCHANGED LoadOthers

\* Variant: the inner catch returns from loadLauncher.
LoadingAfterOfflineFailureKept == TRUE

\* setIsLoading(false) follows the inner try and its catch (App.tsx:256).
LoadingAfterOfflineFailure == FALSE

\* get_offline_games returns in the catch block; a rejection is caught by the
\* inner try (App.tsx:242-256).
LoadCatchOfflineGamesReturned ==
  /\ loader = "catchOfflineGames"
  /\ \/ \E offlineGames \in OfflineLists, cached \in CachedStatuses :
          /\ loadOfflineGames' = [games |-> offlineGames, status |-> cached]
          /\ games' = offlineGames
          /\ gameStatus' = cached
          /\ loader' = "catchOfflineLinks"
          /\ UNCHANGED isLoading
     \/ /\ isLoading' = LoadingAfterOfflineFailure
        /\ loader' = "idle"
        /\ UNCHANGED <<games, gameStatus, loadOfflineGames>>
  /\ UNCHANGED <<isOfflineMode, error, loadGamesResult, scanError>>
  /\ UNCHANGED LoadOthers

\* get_social_links returns in the catch block (App.tsx:246-256).
LoadCatchOfflineLinksReturned ==
  /\ loader = "catchOfflineLinks"
  /\ isLoading' = FALSE
  /\ loader' = "idle"
  /\ UNCHANGED <<games, gameStatus, isOfflineMode, error, loadLocals>>
  /\ UNCHANGED LoadOthers

\* ------------------------------------------- loadLauncher of part_001
\* The same state as App.tsx; loader values "p1..." are the awaits of this
\* variant.  Its catch block up to its await (part_001:200-205).
Load001Catch ==
  /\ isOfflineMode' = TRUE
  /\ error' = "null"
  /\ loader' = "p1offline"
  /\ UNCHANGED <<games, gameStatus, isLoading, loadLocals>>

\* The retry and the reload button (part_001:440, 660).
Load001Launcher ==
  /\ ~isLoading /\ loader = "p1idle"
  /\ isLoading' = TRUE
  /\ loader' = "p1games"
  /\ loadGamesResult' = NoResult
  /\ UNCHANGED <<games, gameStatus, isOfflineMode, error, scanError,
                 loadOfflineGames>>
  /\ UNCHANGED LoadOthers

\* get_games returns (part_001:181-185).
Load001GamesReturned ==
  /\ loader = "p1games"
  /\ \/ /\ \E list \in GameLists :
             loadGamesResult' =
               [games |-> list,
                status |-> [g \in GameIds |-> manifest[g].status]]
        /\ loader' = "p1net"
        /\ UNCHANGED <<games, gameStatus, isLoading, isOfflineMode, error,
                       scanError, loadOfflineGames>>
     \/ Load001Catch
  /\ UNCHANGED LoadOthers

\* check_network_status returns (part_001:185-189).
Load001NetworkReturned ==
  /\ loader = "p1net"
  /\ \/ /\ \E is_online \in BOOLEAN : isOfflineMode' = ~is_online
        /\ loader' = "p1scan"
        /\ UNCHANGED <<games, gameStatus, isLoading, error, loadLocals>>
     \/ Load001Catch
  /\ UNCHANGED LoadOthers

\* scan_local_games returns or is caught (part_001:188-197).
Load001ScanReturned ==
  /\ loader = "p1scan"
  /\ \/ /\ games' = GamesOnDisk(installed)
        /\ gameStatus' = [g \in GameIds |-> ScannedStatus(g)]
     \/ /\ games' = loadGamesResult.games
        /\ gameStatus' = loadGamesResult.status
  /\ loader' = "p1startup"
  /\ UNCHANGED <<isLoading, isOfflineMode, error, loadLocals>>
  /\ UNCHANGED LoadOthers

\* get_startup_status returns (part_001:197-200).
Load001StartupReturned ==
  /\ loader = "p1startup"
  /\ \/ /\ isLoading' = FALSE
        /\ loader' = "p1idle"
        /\ UNCHANGED <<games, gameStatus, isOfflineMode, error, loadLocals>>
     \/ Load001Catch
  /\ UNCHANGED LoadOthers

\* get_offline_games returns in the catch block, or is caught
\* (part_001:204-212).
Load001OfflineReturned ==
  /\ loader = "p1offline"
  /\ \/ \E offlineGames \in OfflineLists, cached \in CachedStatuses :
          /\ games' = offlineGames
          /\ gameStatus' = cached
     \/ UNCHANGED <<games, gameStatus>>
  /\ isLoading' = FALSE
  /\ loader' = "p1idle"
  /\ UNCHANGED <<isOfflineMode, error, loadLocals>>
  /\ UNCHANGED LoadOthers

\* ------------------------------------------- loadLauncher of part_003
\* setError(...); setIsLoading(false) of the offline branch and of the catch
\* block (part_003:86-89, 106-109).
Load003Failed(message) ==
  /\ error' = message
  /\ isLoading' = FALSE
  /\ loader' = "p3idle"
  /\ UNCHANGED <<games, gameStatus, isOfflineMode, loadLocals>>

\* The retry button of the error screen (part_003:236).
Load003Launcher ==
  /\ ~isLoading /\ loader = "p3idle"
  /\ isLoading' = TRUE
  /\ loader' = "p3net"
  /\ UNCHANGED <<games, gameStatus, isOfflineMode, error, loadLocals>>
  /\ UNCHANGED LoadOthers

\* check_network_status returns (part_003:83-93).
Load003NetworkReturned ==
  /\ loader = "p3net"
  /\ \/ /\ loader' = "p3games"
        /\ UNCHANGED <<games, gameStatus, isLoading, isOfflineMode, error,
                       loadLocals>>
     \/ Load003Failed("NetworkMessage")
     \/ Load003Failed("err")
  /\ UNCHANGED LoadOthers

\* get_games returns (part_003:92-102).
Load003GamesReturned ==
  /\ loader = "p3games"
  /\ \/ /\ \E list \in GameLists : games' = list
        /\ gameStatus' = [g \in GameIds |-> manifest[g].status]
        /\ loader' = "p3startup"
        /\ UNCHANGED <<isLoading, isOfflineMode, error, loadLocals>>
     \/ Load003Failed("err")
  /\ UNCHANGED LoadOthers

\* get_startup_status returns (part_003:101-105).
Load003StartupReturned ==
  /\ loader = "p3startup"
  /\ \/ /\ isLoading' = FALSE
        /\ loader' = "p3idle"
        /\ UNCHANGED <<games, gameStatus, isOfflineMode, error, loadLocals>>
     \/ Load003Failed("err")
  /\ UNCHANGED LoadOthers

\* --------------------------------------------------- checkConnectionInterval
ProbeOthers ==
  <<others, manifest, selectedGame, isLoading, ops, finished, loader>>

\* Variant: going offline cancels the operation in flight.
DownloadingAfterProbeCancelled(d, online) == IF online THEN d ELSE NoGame

\* The interval callback never calls setDownloading.
DownloadingAfterProbe(d, online) == d

\* The callback starts: it reads the isOfflineMode of the render that created
\* the interval (the effect depends on isOfflineMode) and invokes
\* check_network_status (App.tsx:146-148).
ProbeTick ==
  /\ probe.pc = "idle"
  /\ probe' = [pc |-> "net", isOfflineMode |-> isOfflineMode,
               result |-> "none"]
  /\ UNCHANGED <<games, isOfflineMode, error, downloading, downloadProgress>>
  /\ UNCHANGED ProbeOthers

\* Variant: the catch block sets the offline mode whatever the closure holds.
ProbeCatchFromAlways(p) ==
  /\ isOfflineMode' = TRUE
  /\ probe' = [p EXCEPT !.pc = "idle"]
  /\ downloading' = DownloadingAfterProbe(downloading, FALSE)
  /\ UNCHANGED <<games, error, downloadProgress>>

\* The catch block of the callback, the callback's record being p
\* (App.tsx:168-173).
ProbeCatchFrom(p) ==
  /\ isOfflineMode' = IF ~p.isOfflineMode THEN TRUE ELSE isOfflineMode
  /\ probe' = [p EXCEPT !.pc = "idle"]
  /\ downloading' = DownloadingAfterProbe(downloading, FALSE)
  /\ UNCHANGED <<games, error, downloadProgress>>

ProbeCatch == ProbeCatchFrom(probe)

\* check_network_status returns (App.tsx:148-167).
ProbeNetworkReturned ==
  /\ probe.pc = "net"
  /\ \E r \in {"online", "offline", "rejected"} :
       CASE r = "online" ->
              /\ downloading' = DownloadingAfterProbe(downloading, TRUE)
              /\ IF probe.isOfflineMode
                 THEN /\ isOfflineMode' = FALSE
                      /\ error' = "null"
                      /\ probe' = [probe EXCEPT !.pc = "games",
                                                !.result = r]
                 ELSE /\ probe' = [probe EXCEPT !.pc = "idle",
                                                !.result = r]
                      /\ UNCHANGED <<isOfflineMode, error>>
              /\ UNCHANGED <<games, downloadProgress>>
         [] r = "offline" ->
              /\ downloading' = DownloadingAfterProbe(downloading, FALSE)
              /\ IF ~probe.isOfflineMode
                 THEN /\ isOfflineMode' = TRUE
                      /\ error' = "null"
                 ELSE UNCHANGED <<isOfflineMode, error>>
              /\ probe' = [probe EXCEPT !.pc = "idle", !.result = r]
              /\ UNCHANGED <<games, downloadProgress>>
         [] OTHER -> ProbeCatchFrom([probe EXCEPT !.result = r])
  /\ UNCHANGED ProbeOthers

\* get_games returns after the network came back (App.tsx:156-159).
ProbeGamesReturned ==
  /\ probe.pc = "games"
  /\ \/ \E gamesResult \in GameLists :
          /\ games' = gamesResult
          /\ probe' = [probe EXCEPT !.pc = "links"]
          /\ UNCHANGED <<isOfflineMode, error, downloading, downloadProgress>>
     \/ ProbeCatch
  /\ UNCHANGED ProbeOthers

\* get_social_links returns (App.tsx:159-167).
ProbeLinksReturned ==
  /\ probe.pc = "links"
  /\ \/ /\ probe' = [probe EXCEPT !.pc = "idle"]
        /\ UNCHANGED <<games, isOfflineMode, error, downloading, downloadProgress>>
     \/ ProbeCatch
  /\ UNCHANGED ProbeOthers

\* ------------------------------------------------------------ specification
\* --------------------------------------- the manifest and the update job
\* A new version of a game is published: "version" is raised in the manifest
\* (part_000:85-89).
Publish(g) ==
  /\ catalog[g] < MaxVersion
  /\ catalog' = [catalog EXCEPT ![g] = catalog[g] + 1]
  /\ UNCHANGED <<manifest, games, selectedGame, downloading, downloadProgress,
                 isLoading, isOfflineMode, error, ops, finished, loader, probe,
                 vars001, sidebar, loadLocals, shell, gameVersion, installed, backups, job>>

\* check_game_updates: an update is needed when the manifest's version is
\* greater than the version it is given as the current one.
NeedsUpdate(latest, currentVersion) == latest > currentVersion

\* `currentVersion: game.version` (App.tsx:360): the version field of the
\* games list entry, which get_games fills from the manifest.
CurrentVersionPassed(g) == gameVersion[g]

\* check_game_updates resolves with the back end's answer.
CheckGameUpdatesResolved(s) ==
  \E confirm \in BOOLEAN :
    CheckResolvedWith(s, NeedsUpdate(catalog[ops[s].gameId],
                                     CurrentVersionPassed(ops[s].gameId)),
                      confirm)

NoJob == [stage |-> "none", version |-> 0, kept |-> 0]

\* Variant: the snapshot is stored twice.
SnapshotTwice(kept, version) == Append(Append(kept, version), version)

\* The live install becomes the newest backup.
Snapshot(kept, version) == Append(kept, version)

\* download_game_update, first step: the installed version is moved into a
\* backup (part_000:35).
BackupTaken(s) ==
  LET g == ops[s].gameId IN
  /\ ops[s].kind = "update" /\ ops[s].pc = "update"
  /\ job[s].stage # "backedUp"
  /\ backups' = [backups EXCEPT ![g] = Snapshot(backups[g], installed[g])]
  /\ installed' = [installed EXCEPT ![g] = 0]
  /\ job' = [job EXCEPT ![s] = [stage |-> "backedUp", version |-> installed[g],
                                kept |-> Len(backups[g])]]
  /\ UNCHANGED <<manifest, games, selectedGame, downloading, downloadProgress,
                 isLoading, isOfflineMode, error, ops, finished, loader, probe,
                 vars001, sidebar, loadLocals, shell, gameVersion, catalog>>

\* Variant: the newest backups are dropped.
PruneNewest(kept) ==
  IF Len(kept) > MaxBackups THEN SubSeq(kept, 1, MaxBackups) ELSE kept

\* The three most recent backups are kept (part_000:37).
Prune(kept) ==
  IF Len(kept) > MaxBackups
  THEN SubSeq(kept, Len(kept) - MaxBackups + 1, Len(kept))
  ELSE kept

\* download_game_update, second step: the manifest's version is downloaded
\* and installed, the old backups are pruned (part_000:36-37), and the
\* command resolves.
UpdateInstalled(s) ==
  LET g == ops[s].gameId IN
  /\ job[s].stage = "backedUp"
  /\ UpdateResolvedCore(s)
  /\ installed' = [installed EXCEPT ![g] = catalog[g]]
  /\ backups' = [backups EXCEPT ![g] = Prune(backups[g])]
  /\ job' = [job EXCEPT ![s].stage = "installed"]
  /\ UNCHANGED <<vars001, sidebar, loadLocals, shell, gameVersion, catalog>>

\* download_game_update rejects before it has touched the install.
UpdateFailedEarly(s) ==
  /\ ops[s].pc = "update" /\ job[s].stage # "backedUp"
  /\ UpdateRejectedCore(s)
  /\ UNCHANGED others

\* Variant: the backup is dropped and nothing is put back.
RestoredNothing(version) == 0

\* The backup just taken becomes the live install again.
Restored(version) == version

\* download_game_update rejects after the backup was taken: the backup is
\* restored.
UpdateFailedRestored(s) ==
  LET g == ops[s].gameId IN
  /\ ops[s].pc = "update" /\ job[s].stage = "backedUp"
  /\ UpdateRejectedCore(s)
  /\ installed' = [installed EXCEPT ![g] = Restored(job[s].version)]
  /\ backups' = [backups EXCEPT ![g] = SubSeq(backups[g], 1, job[s].kept)]
  /\ job' = [job EXCEPT ![s].stage = "restored"]
  /\ UNCHANGED <<vars001, sidebar, loadLocals, shell, gameVersion, catalog>>

\* get_games resolves after the update: the list shown has the manifest's
\* versions.
UpdateRefreshed(s) ==
  /\ UpdateRefreshResolvedCore(s)
  /\ games' = GamesOnDisk(installed)
  /\ gameVersion' = catalog
  /\ UNCHANGED <<vars001, sidebar, loadLocals, shell, backend>>

\* get_games rejects after the update.
UpdateRefreshRejected(s) ==
  /\ ops[s].pc = "updateRefresh"
  /\ UpdateRejected(s)

\* ------------------------------------------------------- the status label
\* translations.en.launcher.games (useLanguage.ts:20-23).
Available == "Available"
ComingSoon == "Coming Soon"
Installed == "Installed"
UpdateAvailable == "Update Available"
NotRendered == ""

\* The label each status has in the translations.
OwnLabel(status) ==
  CASE status = "coming_soon" -> ComingSoon
    [] status = "update_available" -> UpdateAvailable
    [] status = "installed" -> Installed
    [] status = "available" -> Available

\* scan_local_games returns the list with the status of every entry set.
ScanStatuses ==
  /\ gameStatus' = [g \in GameIds |-> ScannedStatus(g)]
  /\ UNCHANGED <<manifest, games, selectedGame, downloading, downloadProgress,
                 isLoading, isOfflineMode, error, ops, finished, loader, probe,
                 vars001, backend, gameVersion, statusLabel, loadLocals,
                 shell>>

\* The text of the status span of a sidebar entry (App.tsx:924-926).
StatusLabel(status) == IF status = "available" THEN Available ELSE ComingSoon

\* The sidebar is rendered.
RenderSidebar ==
  /\ statusLabel' = [g \in GameIds |-> StatusLabel(gameStatus[g])]
  /\ UNCHANGED <<manifest, games, selectedGame, downloading, downloadProgress,
                 isLoading, isOfflineMode, error, ops, finished, loader, probe,
                 vars001, backend, gameVersion, gameStatus, loadLocals,
                 shell>>

\* ------------------------------------------- handleMinimize, handleClose
\* No window handler has run.  tray is the minimizeToTray the handler read,
\* issued the commands it invoked, failed those of them that rejected, and
\* propagated says that an error left the handler.
IdleWindowOp ==
  [handler |-> "none", pc |-> "idle", tray |-> FALSE, issued |-> <<>>,
   failed |-> <<>>, propagated |-> FALSE]

\* The command of the catch block (App.tsx:443, 463).
FallbackCommand(handler) ==
  IF handler = "close" THEN "close_window" ELSE "minimize_window"

\* Variant: the tray setting is ignored.
FirstCommandNoTray(handler, tray) == FallbackCommand(handler)

\* The command of the try block (App.tsx:432-438, 452-458).
FirstCommand(handler, tray) ==
  IF tray THEN "hide_window" ELSE FallbackCommand(handler)

\* The window is gone once close_window has succeeded.
AppRuns == windowOp.pc # "closed"

\* The minimize and the close button of the header (App.tsx:680-692):
\* the handler up to its first await.
ClickWindowButton(handler) ==
  /\ PanelShown /\ windowOp.pc = "idle"
  /\ windowOp' =
       [IdleWindowOp EXCEPT
          !.handler = handler, !.pc = "first", !.tray = minimizeToTray,
          !.issued = <<FirstCommand(handler, minimizeToTray)>>]
  /\ UNCHANGED <<minimizeToTray, currentLanguage, storage>>

\* The handler returns after command cmd succeeded.
WindowAfter(cmd) == IF cmd = "close_window" THEN "closed" ELSE "idle"

\* The command of the try block resolves: the handler returns.
WindowFirstResolved ==
  /\ windowOp.pc = "first"
  /\ windowOp' = [windowOp EXCEPT !.pc = WindowAfter(windowOp.issued[1])]
  /\ UNCHANGED <<minimizeToTray, currentLanguage, storage>>

\* The command of the try block rejects: the catch block invokes the
\* fallback (App.tsx:439-443, 459-463).
WindowFirstRejected ==
  /\ windowOp.pc = "first"
  /\ windowOp' =
       [windowOp EXCEPT
          !.pc = "fallback",
          !.issued = Append(@, FallbackCommand(windowOp.handler)),
          !.failed = Append(@, windowOp.issued[1])]
  /\ UNCHANGED <<minimizeToTray, currentLanguage, storage>>

\* The fallback resolves.
WindowFallbackResolved ==
  /\ windowOp.pc = "fallback"
  /\ windowOp' = [windowOp EXCEPT !.pc = WindowAfter(windowOp.issued[2])]
  /\ UNCHANGED <<minimizeToTray, currentLanguage, storage>>

\* The fallback rejects: the inner catch logs it (App.tsx:444-446, 464-466).
WindowFallbackRejected ==
  /\ windowOp.pc = "fallback"
  /\ windowOp' = [windowOp EXCEPT !.pc = "idle",
                                  !.failed = Append(@, windowOp.issued[2])]
  /\ UNCHANGED <<minimizeToTray, currentLanguage, storage>>

\* The two radio buttons of the close behaviour (App.tsx:766-783).
SetMinimizeToTray ==
  /\ PanelShown /\ AppRuns
  /\ \E checked \in BOOLEAN : minimizeToTray' = checked
  /\ UNCHANGED <<windowOp, currentLanguage, storage>>

\* ------------------------------------------------------------ useLanguage
\* The keys of `translations` itself (useLanguage.ts:10, 68).
Languages == {"en", "vi"}
\* Names every object inherits from Object.prototype.
InheritedKeys == {"constructor"}
\* What localStorage may hold under the key: nothing, a language of the
\* launcher, a language it does not have, an inherited name.
StoredValues == {"null"} \cup Languages \cup {"fr"} \cup InheritedKeys

\* translations[x] is truthy: a lookup by name finds the object's own keys
\* and the inherited ones.
HasTranslations(x) == x \in Languages \cup InheritedKeys

\* The language after the effect of the hook has run (useLanguage.ts:130-140).
LoadedLanguage(saved) ==
  IF saved # "null" /\ HasTranslations(saved) THEN saved ELSE "en"

\* App is mounted: the useState initial values and the effect of the hook.
AppMounted ==
  /\ windowOp.pc \in {"idle", "closed"}
  /\ minimizeToTray' = FALSE
  /\ windowOp' = IdleWindowOp
  /\ currentLanguage' = LoadedLanguage(storage)
  /\ UNCHANGED storage

\* changeLanguage, called by the two radio buttons of the language
\* (useLanguage.ts:142-148, App.tsx:738-755).
ChangeLanguage ==
  /\ PanelShown /\ AppRuns
  /\ \E language \in Languages :
       IF HasTranslations(language)
       THEN /\ currentLanguage' = language
            /\ storage' = language
       ELSE UNCHANGED <<currentLanguage, storage>>
  /\ UNCHANGED <<minimizeToTray, windowOp>>

ShellOthers ==
  <<manifest, games, selectedGame, downloading, downloadProgress, isLoading,
    isOfflineMode, error, ops, finished, loader, probe, vars001, backend,
    gameVersion, sidebar, loadLocals>>

SettingsNext ==
  \/ ClickWindowButton("minimize") /\ UNCHANGED ShellOthers
  \/ ClickWindowButton("close") /\ UNCHANGED ShellOthers
  \/ WindowFirstResolved /\ UNCHANGED ShellOthers
  \/ WindowFirstRejected /\ UNCHANGED ShellOthers
  \/ WindowFallbackResolved /\ UNCHANGED ShellOthers
  \/ WindowFallbackRejected /\ UNCHANGED ShellOthers
  \/ SetMinimizeToTray /\ UNCHANGED ShellOthers
  \/ AppMounted /\ UNCHANGED ShellOthers
  \/ ChangeLanguage /\ UNCHANGED ShellOthers

\* ------------------------------------------------- part_001: the handlers
\* The variables of the model of App.tsx that the handlers of part_001 leave
\* alone (it has the same games, selectedGame and downloading state).
appOthers001 ==
  <<manifest, downloadProgress, isLoading, isOfflineMode, error, ops,
    finished, loader, probe, backend, gameVersion, sidebar,
    loadLocals, shell>>

IdleOp001 == [kind |-> "none", gameId |-> NoGame, pc |-> "idle"]
Free001(s) == ops001[s].pc = "idle"
FirstFree001(s) == Free001(s) /\ \A r \in Slots : r < s => ~Free001(r)

\* downloadProgress === null.
NoProgress001 == [gameId |-> NoGame, progress |-> 0, status |-> "null"]

\* Math.random() * 10 of the simulated progress (part_001:233), in percent.
Increments001 == {0, 5}
Min(a, b) == IF a < b THEN a ELSE b

\* The interval left running by an invocation that has returned.
Leaked001 == 0

\* handleDownloadGame of part_001 up to its await (part_001:215-249).
\* Record s is idle on entry (a click) or awaits repair_game.
HandleDownloadGame001(s, kind, id) ==
  IF manifest[id].download_urls = <<>>
  THEN /\ ops001' = [ops001 EXCEPT ![s] = IdleOp001]
       /\ UNCHANGED <<downloading, downloadProgress001, intervals001>>
  ELSE /\ downloading' = id
       /\ downloadProgress001' =
            [gameId |-> id, progress |-> 0, status |-> "downloading"]
       /\ intervals001' = intervals001 \cup {s}
       /\ ops001' = [ops001 EXCEPT ![s] =
                       [kind |-> kind, gameId |-> id, pc |-> "download"]]

\* btn-install (part_001:766-770).
ClickInstall001(s) ==
  /\ PanelShown /\ FirstFree001(s)
  /\ selectedGame.id # NoGame
  /\ manifest[selectedGame.id].status # "coming_soon"
  /\ ~selectedGame.executable_path
  /\ downloading # selectedGame.id
  /\ HandleDownloadGame001(s, "install", selectedGame.id)
  /\ UNCHANGED <<appOthers001, games, selectedGame>>

\* One tick of a live interval (part_001:230-244).
ProgressTick001 ==
  /\ intervals001 # {}
  /\ downloadProgress001 # NoProgress001
  /\ \E d \in Increments001 :
       downloadProgress001' =
         [downloadProgress001 EXCEPT
            !.progress = Min(downloadProgress001.progress + d, 95)]
  /\ UNCHANGED <<appOthers001, games, selectedGame, downloading, ops001,
                 intervals001>>

\* download_game resolves: clearInterval, the extracting state, and the
\* two-second wait (part_001:251-256).
DownloadResolved001(s) ==
  /\ ops001[s].pc = "download"
  /\ intervals001' = intervals001 \ {s}
  /\ downloadProgress001' =
       IF downloadProgress001 # NoProgress001
       THEN [downloadProgress001 EXCEPT !.status = "extracting",
                                        !.progress = 100]
       ELSE NoProgress001
  /\ ops001' = [ops001 EXCEPT ![s].pc = "extract"]
  /\ UNCHANGED <<appOthers001, games, selectedGame, downloading>>

\* The wait is over: get_games is invoked (part_001:259).
ExtractWaited001(s) ==
  /\ ops001[s].pc = "extract"
  /\ ops001' = [ops001 EXCEPT ![s].pc = "games"]
  /\ UNCHANGED <<appOthers001, games, selectedGame, downloading,
                 downloadProgress001, intervals001>>

\* get_games resolves: scan_local_games is invoked (part_001:260).
GamesResolved001(s) ==
  /\ ops001[s].pc = "games"
  /\ ops001' = [ops001 EXCEPT ![s].pc = "scan"]
  /\ UNCHANGED <<appOthers001, games, selectedGame, downloading,
                 downloadProgress001, intervals001>>

\* scan_local_games resolves: the list is shown, the selected game gets the
\* executable path found for the installed game, and the download state is
\* cleared (part_001:261-274).
ScanResolved001(s) ==
  /\ ops001[s].pc = "scan"
  /\ \E scannedGames \in GameLists :
       /\ games' = scannedGames
       /\ selectedGame' =
            IF GameInfo(ops001[s].gameId, TRUE) \in scannedGames
               /\ selectedGame.id # NoGame
            THEN [selectedGame EXCEPT !.executable_path = TRUE]
            ELSE selectedGame
  /\ downloading' = NoGame
  /\ downloadProgress001' = NoProgress001
  /\ ops001' = [ops001 EXCEPT ![s] = IdleOp001]
  /\ UNCHANGED <<appOthers001, intervals001>>

\* The interval of an invocation whose download_game rejected is not cleared:
\* clearInterval is after the await, inside the try (part_001:251).
IntervalsAfterFailure001(timers, s) ==
  IF s \in timers THEN (timers \ {s}) \cup {Leaked001} ELSE timers

\* download_game, get_games or scan_local_games rejects: the catch block
\* (part_001:275-281).
Rejected001(s) ==
  /\ ops001[s].pc \in {"download", "games", "scan"}
  /\ downloading' = NoGame
  /\ downloadProgress001' = NoProgress001
  /\ intervals001' = IntervalsAfterFailure001(intervals001, s)
  /\ ops001' = [ops001 EXCEPT ![s] = IdleOp001]
  /\ UNCHANGED <<appOthers001, games, selectedGame>>

\* The repair button of the social sidebar: handleRepairGame up to its await
\* (part_001:315-322, 863-870).
ClickSocialRepair001(s) ==
  /\ PanelShown /\ FirstFree001(s)
  /\ selectedGame.id # NoGame
  /\ IF manifest[selectedGame.id].repair_enabled
     THEN ops001' = [ops001 EXCEPT ![s] =
                       [kind |-> "repair", gameId |-> selectedGame.id,
                        pc |-> "repair"]]
     ELSE UNCHANGED ops001
  /\ UNCHANGED <<appOthers001, games, selectedGame, downloading,
                 downloadProgress001, intervals001>>

\* repair_game resolves: with result.success the game is downloaded again,
\* otherwise the errors are shown (part_001:324-329).
RepairResolved001(s) ==
  /\ ops001[s].pc = "repair"
  /\ \E success \in BOOLEAN :
       IF success
       THEN HandleDownloadGame001(s, "repair", ops001[s].gameId)
       ELSE /\ ops001' = [ops001 EXCEPT ![s] = IdleOp001]
            /\ UNCHANGED <<downloading, downloadProgress001, intervals001>>
  /\ UNCHANGED <<appOthers001, games, selectedGame>>

\* repair_game rejects (part_001:330-333).
RepairRejected001(s) ==
  /\ ops001[s].pc = "repair"
  /\ ops001' = [ops001 EXCEPT ![s] = IdleOp001]
  /\ UNCHANGED <<appOthers001, games, selectedGame, downloading,
                 downloadProgress001, intervals001>>

Entry(urls, repair, status) ==
  [download_urls |-> urls, repair_enabled |-> repair, status |-> status]

\* Every game at its first version, nothing on disk, no update running.
FirstRelease ==
  /\ catalog = [g \in GameIds |-> 1]
  /\ gameVersion = [g \in GameIds |-> 1]
  /\ installed = [g \in GameIds |-> 0]
  /\ backups = [g \in GameIds |-> <<>>]
  /\ job = [s \in Slots |-> NoJob]
  /\ gameStatus = [g \in GameIds |-> "available"]
  /\ statusLabel = [g \in GameIds |-> NotRendered]
  /\ loadGamesResult = NoResult
  /\ scanError = FALSE
  /\ loadOfflineGames = NoResult

\* No window handler has run, the tray setting is off, nothing is stored.
RestShell ==
  /\ minimizeToTray = FALSE
  /\ windowOp = IdleWindowOp
  /\ currentLanguage = "en"
  /\ storage = "null"

\* No handler of part_001 has run: useState(null) and no interval.
Rest001 ==
  /\ ops001 = [s \in Slots |-> IdleOp001]
  /\ downloadProgress001 = NoProgress001
  /\ intervals001 = {}

\* The state after App is mounted: the useState initial values, and
\* loadLauncher (called by the mount effect) waiting for check_network_status.
InitApp ==
  /\ games = {}
  /\ selectedGame = GameInfo(NoGame, FALSE)
  /\ downloading = NoGame
  /\ downloadProgress = [g \in GameIds |-> NoProgress]
  /\ isLoading = TRUE
  /\ isOfflineMode = FALSE
  /\ error = "null"
  /\ ops = [s \in Slots |-> IdleOp]
  /\ finished = IdleOp
  /\ loader = "net"
  /\ probe = IdleProbe
  /\ Rest001
  /\ RestShell
  /\ FirstRelease

\* The state after loadLauncher has finished on its online path, before any
\* user action: the list shown is whatever the scan returned.
Loaded ==
  /\ games \in GameLists
  /\ selectedGame = GameInfo(NoGame, FALSE)
  /\ downloading = NoGame
  /\ downloadProgress = [g \in GameIds |-> NoProgress]
  /\ isLoading = FALSE
  /\ isOfflineMode = FALSE
  /\ error = "null"
  /\ ops = [s \in Slots |-> IdleOp]
  /\ finished = IdleOp
  /\ loader = "idle"
  /\ probe = IdleProbe
  /\ Rest001
  /\ RestShell
  /\ FirstRelease

AnyEntry ==
  {Entry(u, r, st) : u \in UrlLists, r \in BOOLEAN,
                     st \in {"available", "coming_soon"}}
\* Released, repairable games with any list of sources.
ReleasedEntry == {Entry(u, TRUE, "available") : u \in UrlLists}
\* Two sources, the primary one declared second; one source.
TwoSources == Entry(UrlList(<<FALSE, TRUE>>), TRUE, "available")
OneSource  == Entry(UrlList(<<TRUE>>), TRUE, "available")

InstallNext(s) ==
  \/ DownloadResolved(s) \/ DownloadRejected(s)
  \/ RefreshResolved(s) \/ RefreshRejected(s)

UpdateNext(s) ==
  \/ CheckResolved(s) \/ CheckRejected(s)
  \/ UpdateResolved(s) \/ UpdateRejected(s) \/ UpdateRefreshResolved(s)

RepairClicks(s) ==
  \/ ClickRepair(s) \/ ClickSocialRepair(s) \/ HandleSocialLink(s)

LoadNext ==
  \/ LoadLauncher \/ LoadNetworkReturned
  \/ LoadOfflineGamesReturned \/ LoadOfflineLinksReturned
  \/ LoadGamesReturned \/ LoadScanReturned \/ LoadLinksReturned
  \/ LoadStartupReturned
  \/ LoadCatchOfflineGamesReturned \/ LoadCatchOfflineLinksReturned

ProbeNext ==
  \/ ProbeTick \/ ProbeNetworkReturned \/ ProbeGamesReturned
  \/ ProbeLinksReturned

\* The whole front end, from the mount of App.
Init == manifest \in [GameIds -> AnyEntry] /\ InitApp

Next ==
  \/ HandleGameSelect \/ LogoClick \/ LoadNext \/ ProbeNext
  \/ SettingsNext
  \/ \E s \in Slots :
       \/ ClickInstall(s) \/ ClickAutoDownload(s) \/ InstallNext(s)
       \/ ClickCheckUpdates(s) \/ UpdateNext(s)
       \/ RepairClicks(s) \/ RepairReturned(s)

Spec == Init /\ [][Next]_vars

\* One install or update at a time, over every list of sources: a handler is
\* started only when none is in flight.
NoneInFlight == \A s \in Slots : Free(s)

InitOperation ==
  /\ manifest \in {[g \in GameIds |-> IF g = "g1" THEN e ELSE OneSource] :
                     e \in ReleasedEntry}
  /\ Loaded

OperationNext ==
  \/ HandleGameSelect
  \/ \E s \in Slots :
       \/ NoneInFlight /\ ClickInstall(s)
       \/ NoneInFlight /\ ClickAutoDownload(s)
       \/ NoneInFlight /\ ClickCheckUpdates(s)
       \/ InstallNext(s)
       \/ UpdateNext(s)

SpecOperation == InitOperation /\ [][OperationNext]_vars

\* The game panel with a game of either status and any list of sources.
InitPanel ==
  /\ manifest \in {[g \in GameIds |-> IF g = "g1" THEN e ELSE OneSource] :
                     e \in AnyEntry}
  /\ Loaded

PanelNext ==
  \/ HandleGameSelect \/ LogoClick
  \/ \E s \in Slots :
       \/ NoneInFlight /\ ClickInstall(s)
       \/ NoneInFlight /\ ClickAutoDownload(s)
       \/ NoneInFlight /\ ClickCheckUpdates(s)
       \/ InstallNext(s)
       \/ UpdateNext(s)

SpecPanel == InitPanel /\ [][PanelNext]_vars

\* Installs and updates of two games in any interleaving.
InitSession ==
  /\ manifest \in {[g \in GameIds |-> IF g = "g1" THEN TwoSources ELSE OneSource]}
  /\ Loaded

SessionNext ==
  \/ HandleGameSelect \/ LogoClick
  \/ \E s \in Slots :
       \/ ClickInstall(s) \/ ClickAutoDownload(s) \/ InstallNext(s)
       \/ ClickCheckUpdates(s) \/ UpdateNext(s)

SpecSession == InitSession /\ [][SessionNext]_vars

\* No invocation has returned since the launcher was loaded.
NoneReturned == finished = IdleOp

\* The first install after the launcher has loaded, followed to its return,
\* every invoke of the handler returning: the back end
\* bounds each download attempt by a timeout of its own, and get_games
\* answers from the network or from its cache.
FallbackNext ==
  \/ HandleGameSelect
  \/ \E s \in Slots :
       \/ NoneInFlight /\ NoneReturned /\ ClickInstall(s)
       \/ NoneInFlight /\ NoneReturned /\ ClickAutoDownload(s)
       \/ InstallNext(s)

\* Every command invoked by an install returns: a download attempt that gets
\* no answer is rejected with AttemptTimeout.
BackendResponds == WF_vars(\E s \in Slots : InstallNext(s))

SpecFallback ==
  /\ InitOperation
  /\ [][FallbackNext]_vars
  /\ WF_vars(\E s \in Slots : InstallNext(s))

\* The network probe beside one install or update at a time.
InitProbe == InitSession

ProbeSessionNext ==
  \/ HandleGameSelect
  \/ ProbeNext
  \/ \E s \in Slots :
       \/ NoneInFlight /\ ClickInstall(s)
       \/ NoneInFlight /\ ClickCheckUpdates(s)
       \/ InstallNext(s)
       \/ UpdateNext(s)

SpecProbe == InitProbe /\ [][ProbeSessionNext]_vars

\* The three ways to ask for a repair, over every setting of repair_enabled
\* and status.
\* The handlers of part_001: installs and repairs, interleaved.
Install001Next(s) ==
  \/ DownloadResolved001(s) \/ ExtractWaited001(s) \/ GamesResolved001(s)
  \/ ScanResolved001(s) \/ Rejected001(s)

Repair001Next(s) ==
  \/ ClickSocialRepair001(s) \/ RepairResolved001(s) \/ RepairRejected001(s)

Init001 ==
  /\ manifest \in [GameIds -> {Entry(UrlList(<<TRUE>>), r, "available") :
                                 r \in BOOLEAN}]
  /\ Loaded

Next001 ==
  \/ HandleGameSelect
  \/ ProgressTick001
  \/ \E s \in Slots :
       \/ ClickInstall001(s) \/ Install001Next(s) \/ Repair001Next(s)

Spec001 == Init001 /\ [][Next001]_vars

\* Updates of game g1, installed at its first version, one at a time, while
\* new versions are published.
InitUpdate ==
  /\ manifest = [g \in GameIds |-> OneSource]
  /\ games = {GameInfo("g1", TRUE), GameInfo("g2", FALSE)}
  /\ selectedGame = GameInfo(NoGame, FALSE)
  /\ downloading = NoGame
  /\ downloadProgress = [g \in GameIds |-> NoProgress]
  /\ isLoading = FALSE /\ isOfflineMode = FALSE /\ error = "null"
  /\ ops = [s \in Slots |-> IdleOp]
  /\ finished = IdleOp
  /\ loader = "idle"
  /\ probe = IdleProbe
  /\ Rest001
  /\ RestShell
  /\ catalog \in {[g \in GameIds |-> IF g = "g1" THEN v ELSE 1] : v \in 1..2}
  /\ gameVersion = catalog
  /\ installed = [g \in GameIds |-> IF g = "g1" THEN 1 ELSE 0]
  /\ backups = [g \in GameIds |-> <<>>]
  /\ job = [s \in Slots |-> NoJob]
  /\ gameStatus = [g \in GameIds |-> "available"]
  /\ statusLabel = [g \in GameIds |-> NotRendered]
  /\ loadGamesResult = NoResult
  /\ scanError = FALSE
  /\ loadOfflineGames = NoResult

UpdateJobNext(s) ==
  \/ BackupTaken(s) \/ UpdateInstalled(s)
  \/ UpdateFailedEarly(s) \/ UpdateFailedRestored(s)
  \/ UpdateRefreshed(s) \/ UpdateRefreshRejected(s)

UpdateSpecNext ==
  \/ HandleGameSelect
  \/ Publish("g1")
  \/ \E s \in Slots :
       \/ NoneInFlight /\ ClickCheckUpdates(s)
       \/ CheckGameUpdatesResolved(s) \/ CheckRejected(s)
       \/ UpdateJobNext(s)

SpecUpdate == InitUpdate /\ [][UpdateSpecNext]_vars

InitRepair ==
  /\ manifest \in [GameIds -> {Entry(UrlList(<<TRUE>>), r, st) :
                                 r \in BOOLEAN,
                                 st \in {"available", "coming_soon"}}]
  /\ Loaded

RepairNext ==
  \/ HandleGameSelect \/ LogoClick
  \/ \E s \in Slots : RepairClicks(s) \/ RepairReturned(s)

SpecRepair == InitRepair /\ [][RepairNext]_vars

\* The games list as get_games returned it, for every combination of the
\* coming-soon flag, the installed version and the manifest's version.
InitStatus ==
  /\ manifest \in [GameIds -> {Entry(UrlList(<<TRUE>>), TRUE, st) :
                                 st \in {"available", "coming_soon"}}]
  /\ catalog \in [GameIds -> 1..2]
  /\ installed \in [GameIds -> 0..2]
  /\ \A g \in GameIds : installed[g] <= catalog[g]
  /\ games = GamesOnDisk(installed)
  /\ selectedGame = GameInfo(NoGame, FALSE)
  /\ downloading = NoGame
  /\ downloadProgress = [g \in GameIds |-> NoProgress]
  /\ isLoading = FALSE /\ isOfflineMode = FALSE /\ error = "null"
  /\ ops = [s \in Slots |-> IdleOp]
  /\ finished = IdleOp
  /\ loader = "idle"
  /\ probe = IdleProbe
  /\ Rest001
  /\ RestShell
  /\ gameVersion = catalog
  /\ backups = [g \in GameIds |-> <<>>]
  /\ job = [s \in Slots |-> NoJob]
  /\ gameStatus = [g \in GameIds |-> manifest[g].status]
  /\ statusLabel = [g \in GameIds |-> NotRendered]
  /\ loadGamesResult = NoResult
  /\ scanError = FALSE
  /\ loadOfflineGames = NoResult

StatusNext == ScanStatuses \/ RenderSidebar \/ HandleGameSelect

SpecStatus == InitStatus /\ [][StatusNext]_vars

\* App is mounted and loadLauncher waits for check_network_status; the
\* manifest marks each game as released or coming soon, and each game is
\* installed or not.
InitLoadAt(await) ==
  /\ manifest \in [GameIds -> {Entry(UrlList(<<TRUE>>), TRUE, st) :
                                 st \in {"available", "coming_soon"}}]
  /\ catalog = [g \in GameIds |-> 1]
  /\ gameVersion = catalog
  /\ installed \in [GameIds -> 0..1]
  /\ backups = [g \in GameIds |-> <<>>]
  /\ job = [s \in Slots |-> NoJob]
  /\ games = {}
  /\ selectedGame = GameInfo(NoGame, FALSE)
  /\ downloading = NoGame
  /\ downloadProgress = [g \in GameIds |-> NoProgress]
  /\ isLoading = TRUE
  /\ isOfflineMode = FALSE
  /\ error = "null"
  /\ ops = [s \in Slots |-> IdleOp]
  /\ finished = IdleOp
  /\ loader = await
  /\ probe = IdleProbe
  /\ Rest001
  /\ RestShell
  /\ gameStatus = [g \in GameIds |-> "available"]
  /\ statusLabel = [g \in GameIds |-> NotRendered]
  /\ loadGamesResult = NoResult
  /\ scanError = FALSE
  /\ loadOfflineGames = NoResult

InitLoad == InitLoadAt("net")

\* The back end answers every command loadLauncher invokes.
LoadReturns ==
  \/ LoadNetworkReturned
  \/ LoadOfflineGamesReturned \/ LoadOfflineLinksReturned
  \/ LoadGamesReturned \/ LoadScanReturned \/ LoadLinksReturned
  \/ LoadStartupReturned
  \/ LoadCatchOfflineGamesReturned \/ LoadCatchOfflineLinksReturned

\* loadLauncher, run at the mount and again by the reload button.
SpecLoad == InitLoad /\ [][LoadNext]_vars /\ WF_vars(LoadReturns)

\* loadLauncher has finished, online with the list the scan returned or
\* offline with the cached list, over every disk content.
InitRefresh ==
  /\ manifest = [g \in GameIds |-> OneSource]
  /\ catalog = [g \in GameIds |-> 1]
  /\ gameVersion = catalog
  /\ installed \in [GameIds -> 0..1]
  /\ backups = [g \in GameIds |-> <<>>]
  /\ job = [s \in Slots |-> NoJob]
  /\ isOfflineMode \in BOOLEAN
  /\ games \in (IF isOfflineMode THEN OfflineLists
                ELSE {GamesOnDisk(installed)})
  /\ gameStatus = [g \in GameIds |-> ScannedStatus(g)]
  /\ statusLabel = [g \in GameIds |-> NotRendered]
  /\ loadGamesResult = NoResult
  /\ scanError = FALSE
  /\ loadOfflineGames = NoResult
  /\ selectedGame = GameInfo(NoGame, FALSE)
  /\ downloading = NoGame
  /\ downloadProgress = [g \in GameIds |-> NoProgress]
  /\ isLoading = FALSE
  /\ error = "null"
  /\ ops = [s \in Slots |-> IdleOp]
  /\ finished = IdleOp
  /\ loader = "idle"
  /\ probe = IdleProbe
  /\ Rest001
  /\ RestShell

SpecRefresh == InitRefresh /\ [][ProbeNext]_vars

\* loadLauncher of App.tsx, of part_001 or of part_003, waiting for its
\* first command after the mount (App.tsx:184, part_001:181, part_003:83).
InitLoadAny == \E await \in {"net", "p1games", "p3net"} : InitLoadAt(await)

Load001Returns ==
  \/ Load001GamesReturned \/ Load001NetworkReturned \/ Load001ScanReturned
  \/ Load001StartupReturned \/ Load001OfflineReturned

Load003Returns ==
  \/ Load003NetworkReturned \/ Load003GamesReturned
  \/ Load003StartupReturned

LoadAnyNext ==
  \/ LoadNext
  \/ Load001Launcher \/ Load001Returns
  \/ Load003Launcher \/ Load003Returns

\* Every command a loadLauncher invokes resolves or rejects.
SpecLoadAny ==
  /\ InitLoadAny
  /\ [][LoadAnyNext]_vars
  /\ WF_vars(LoadReturns \/ Load001Returns \/ Load003Returns)

\* The launcher has loaded, online or offline, with any list or (offline)
\* none, and nothing but the connection check runs.
InitTick ==
  /\ manifest \in [GameIds -> {Entry(UrlList(<<TRUE>>), TRUE, st) :
                                 st \in {"available", "coming_soon"}}]
  /\ games \in OfflineLists
  /\ isOfflineMode \in BOOLEAN
  /\ isOfflineMode \/ games # {}
  /\ selectedGame = GameInfo(NoGame, FALSE)
  /\ downloading = NoGame
  /\ downloadProgress = [g \in GameIds |-> NoProgress]
  /\ isLoading = FALSE
  /\ error = "null"
  /\ ops = [s \in Slots |-> IdleOp]
  /\ finished = IdleOp
  /\ loader = "idle"
  /\ probe = IdleProbe
  /\ Rest001
  /\ RestShell
  /\ FirstRelease

SpecTick == InitTick /\ [][ProbeNext]_vars

\* The launcher has loaded; localStorage holds any of the values it may
\* hold, and the hook has read it.
InitSettings ==
  /\ manifest = [g \in GameIds |-> OneSource]
  /\ games \in GameLists
  /\ selectedGame = GameInfo(NoGame, FALSE)
  /\ downloading = NoGame
  /\ downloadProgress = [g \in GameIds |-> NoProgress]
  /\ isLoading = FALSE
  /\ isOfflineMode = FALSE
  /\ error = "null"
  /\ ops = [s \in Slots |-> IdleOp]
  /\ finished = IdleOp
  /\ loader = "idle"
  /\ probe = IdleProbe
  /\ Rest001
  /\ FirstRelease
  /\ minimizeToTray = FALSE
  /\ windowOp = IdleWindowOp
  /\ storage \in StoredValues
  /\ currentLanguage = LoadedLanguage(storage)

SpecSettings == InitSettings /\ [][SettingsNext]_vars

\* ------------------------------------------------------------------ claims
\* The install invocations on record: those in flight and the last returned.
InstallRecords ==
  {r \in {ops[s] : s \in Slots} \cup {finished} : r.kind = "install"}

IsPrefix(a, b) == Len(a) <= Len(b) /\ \A k \in 1..Len(a) : a[k] = b[k]

\* The names of a list of sources in priority order: the primary ones in the
\* order they are declared, then the others in the order they are declared.
DeclaredNames(urls) == [k \in 1..Len(urls) |-> urls[k].name]
IsPrimaryName(urls, n) == \E k \in 1..Len(urls) : urls[k].name = n /\ urls[k].primary
PriorityOrder(urls) ==
  SelectSeq(DeclaredNames(urls), LAMBDA n : IsPrimaryName(urls, n))
    \o SelectSeq(DeclaredNames(urls), LAMBDA n : ~IsPrimaryName(urls, n))

\* C1: within one handleDownloadGame call the sources are attempted in
\* priority order (every primary source before every other one, declaration
\* order inside each group) and none is attempted twice: at every moment the
\* attempts made so far are an initial part of the priority order.
C1_PriorityOrder ==
  \A r \in InstallRecords :
    /\ IsPrefix(r.attempts, PriorityOrder(manifest[r.gameId].download_urls))
    /\ \A j, k \in 1..Len(r.attempts) : j # k => r.attempts[j] # r.attempts[k]

\* The primary source is declared second and was attempted first; the source
\* declared first is attempted after it failed.
C1_Witness ==
  \E s \in Slots : ops[s].kind = "install" /\ ops[s].attempts = <<2, 1>>

\* C2: when the download of every source before the last one fails and the
\* download of the last source succeeds, the install completes successfully
\* using that source, after exactly one attempt per source.
C2_LastSourceSucceeds ==
  LET r == finished
      n == Len(r.sortedUrls) IN
  ( /\ r.kind = "install"
    /\ n > 0
    /\ Len(r.attempts) = n
    /\ \A k \in 1..(n - 1) : r.reasons[k] \in DownloadErrors
    /\ ~(Len(r.reasons) = n /\ r.reasons[n] \in DownloadErrors) )
  => /\ r.outcome = "success"
     /\ r.attempts[n] = r.sortedUrls[n].name
     /\ Len(r.reasons) = n - 1

Sessions(g) ==
  {s \in Slots : /\ ops[s].gameId = g
                 /\ ops[s].pc \in {"download", "refresh", "update", "updateRefresh"}}

\* C4: at most one install or update session per game id at any instant.
C4_OneSessionPerGame == \A g \in GameIds : Cardinality(Sessions(g)) <= 1

\* A step in which the invocation in record s returns.
Returned(s) == InFlight(s) /\ ops'[s] = IdleOp

\* C5: when handleDownloadGame returns, with success as with failure, the
\* game is no longer marked as downloading.
C5_SessionDestroyed ==
  [][\A s \in Slots :
       (ops[s].kind = "install" /\ Returned(s))
         => downloading' # ops[s].gameId]_vars

C7_OtherGamesDoNotDisturb ==
  [][\A a \in Slots :
       ( /\ ops[a].kind = "install" /\ InFlight(a) /\ ops'[a] = ops[a]
         /\ downloading = ops[a].gameId
         /\ \E b \in Slots : /\ ops'[b] # ops[b]
                             /\ ops[b].gameId # ops[a].gameId
                             /\ ops'[b].gameId # ops[a].gameId )
       => /\ downloading' = downloading
          /\ downloadProgress'[ops[a].gameId] = downloadProgress[ops[a].gameId]]_vars

\* C8: no step of the network probe changes the downloading marker, the
\* download progress or an invocation in flight.
C8_ProbeLeavesSessions ==
  [][ProbeNext => UNCHANGED <<downloading, downloadProgress, ops>>]_vars

\* The probe has switched to offline mode while an install is in flight and
\* marked.
C8_Witness ==
  /\ isOfflineMode /\ probe.pc = "idle"
  /\ \E s \in Slots : /\ ops[s].kind = "install" /\ ops[s].pc = "download"
                      /\ downloading = ops[s].gameId
                      /\ downloadProgress[ops[s].gameId] # NoProgress

\* Attempt k of the install in record s is waiting for its download.
Pending(s, k) ==
  ops[s].kind = "install" /\ ops[s].pc = "download" /\ ops[s].i = k

C10_RepairOnlyWhenEnabled ==
  [][/\ \A s \in Slots :
          ops'[s].kind = "repair" => manifest[ops'[s].gameId].repair_enabled
     /\ ((\E s \in Slots : RepairClicks(s))
           /\ selectedGame.id # NoGame
           /\ ~manifest[selectedGame.id].repair_enabled)
        => UNCHANGED vars]_vars

\* A game without repair_enabled is selected (the sidebar's repair button is
\* shown for it) while a repair of the other game is in flight.
C10_Witness ==
  /\ selectedGame.id # NoGame
  /\ ~manifest[selectedGame.id].repair_enabled
  /\ \E s \in Slots : ops[s].kind = "repair"

\* C11: repairing a game that is installed is a no-op: when repair_game
\* returns, the handler returns too, no download is started, and the games
\* list, the downloading marker and the progress are what they were.
C11_RepairIsNoOp ==
  [][\A s \in Slots :
       ( /\ ops001[s].pc = "repair" /\ ops001'[s] # ops001[s]
         /\ GameInfo(ops001[s].gameId, TRUE) \in games )
       => /\ ops001'[s] = IdleOp001
          /\ UNCHANGED <<games, downloading, downloadProgress001>>]_vars

\* The answer of an update check, read from the step in which invocation s
\* receives it.
AnsweredNeedsUpdate(s) ==
  \/ ops'[s].pc = "update"
  \/ ops'[s] = IdleOp /\ finished'.outcome = "declined"
AnsweredUpToDate(s) == ops'[s] = IdleOp /\ finished'.outcome = "uptodate"

\* C12: the update check answers that an update is needed exactly when the
\* manifest's version is greater than the installed version of the game.
C12_NeedsUpdateIffNewer ==
  [][\A s \in Slots :
       ops[s].pc = "check" =>
         LET newer == catalog[ops[s].gameId] > installed[ops[s].gameId] IN
         /\ AnsweredNeedsUpdate(s) => newer
         /\ AnsweredUpToDate(s) => ~newer]_vars

\* An update of game g has taken its backup and not yet finished.
Updating(g) ==
  \E s \in Slots : /\ ops[s].gameId = g /\ ops[s].pc = "update"
                   /\ job[s].stage = "backedUp"

\* C13 as stated: the number of backups kept for a game never exceeds 3.
C13_NeverMoreThanThree ==
  \A g \in GameIds : Len(backups[g]) <= MaxBackups

\* C13 as amended: a game has at most 3 backups except while an update of it
\* is between its backup and its end, when it has at most 4; the update that
\* ends with more than 3 drops the oldest one.
C13_ThreeBackupsAtRest ==
  /\ [](\A g \in GameIds :
          Len(backups[g]) <= MaxBackups + (IF Updating(g) THEN 1 ELSE 0))
  /\ [][\A s \in Slots :
          (ops[s].pc = "update" /\ ops'[s].pc = "updateRefresh"
             /\ Len(backups[ops[s].gameId]) > MaxBackups)
          => backups'[ops[s].gameId] = Tail(backups[ops[s].gameId])]_vars

\* Four updates in a row, from version 1 to version 5: the backup of
\* version 1 is gone.
C13_Witness ==
  installed["g1"] = 5 /\ backups["g1"] = <<2, 3, 4>>

\* C14: a successful update has taken exactly one backup, of the version
\* that was installed, before the new version is installed, and ends with
\* the manifest's version installed.
C14_BackupThenInstall ==
  /\ [](\A s \in Slots :
          job[s].stage = "backedUp" =>
            LET g == ops[s].gameId IN
            /\ ops[s].pc = "update"
            /\ installed[g] = 0
            /\ job[s].version # 0
            /\ Len(backups[g]) = job[s].kept + 1
            /\ backups[g][Len(backups[g])] = job[s].version)
  /\ [][\A s \in Slots :
          (ops[s].pc = "update" /\ ops'[s].pc = "updateRefresh")
          => /\ job[s].stage = "backedUp"
             /\ installed'[ops[s].gameId] = catalog[ops[s].gameId]]_vars

\* A first update has succeeded: one backup, of version 1.
C14_Witness ==
  /\ finished.kind = "update" /\ finished.outcome = "success"
  /\ backups["g1"] = <<1>>
  /\ installed["g1"] = catalog["g1"]

\* C15: when download_game_update fails after it has taken the backup, the
\* version that was installed is the live install again, the backup list is
\* what it was, and the game is still shown as installed.
C15_RestoredAfterFailure ==
  [][\A s \in Slots :
       (ops[s].pc = "update" /\ job[s].stage = "backedUp" /\ Returned(s))
       => LET g == ops[s].gameId IN
          /\ installed'[g] = job[s].version
          /\ Len(backups'[g]) = job[s].kept
          /\ GameInfo(g, TRUE) \in games']_vars

\* An update has failed after its backup, with an older backup kept.
C15_Witness ==
  /\ finished.kind = "update" /\ finished.outcome = "failed"
  /\ \E s \in Slots : job[s].stage = "restored" /\ job[s].kept = 1
  /\ installed["g1"] = 2 /\ backups["g1"] = <<1>>

\* C16: every entry that is shown is shown with the label of its own status,
\* whichever of coming_soon, update_available, installed and available the
\* precedence gave it.
C16_OwnLabelByPrecedence ==
  \A g \in GameIds :
    statusLabel[g] # NotRendered => statusLabel[g] = OwnLabel(gameStatus[g])

\* C17: when the local scan fails, the list shown is the manifest's list with
\* every entry in it and each entry's status the manifest's available or
\* coming_soon, the load goes on to its next step with the offline mode and
\* the error as they were, no error is ever set, and the load finishes.
C17_ScanFailureTolerated ==
  /\ [][(scanError' /\ ~scanError) =>
          /\ games' = loadGamesResult.games
          /\ {x.id : x \in games'} = GameIds
          /\ \A g \in GameIds :
               /\ gameStatus'[g] = manifest[g].status
               /\ gameStatus'[g] \in {"available", "coming_soon"}
          /\ isOfflineMode' = isOfflineMode
          /\ error' = error
          /\ loader' = "links"]_vars
  /\ [](error = "null")
  /\ (scanError ~> ~isLoading)

\* The scan failed and the load finished online with the manifest's list.
C17_Witness ==
  /\ scanError /\ ~isLoading /\ ~isOfflineMode /\ loader = "idle"
  /\ games = loadGamesResult.games /\ games # {}
  /\ \E g \in GameIds : installed[g] # 0 /\ gameStatus[g] = "available"

\* The error screen is rendered (App.tsx:606).
ErrorScreen == error # "null" /\ ~isOfflineMode

\* loadLauncher returns.
LoadEnds == loader # "idle" /\ loader' = "idle"

\* get_offline_games is invoked: the network check said offline, or a step
\* of the load threw to the catch block of loadLauncher.
FallsBack ==
  /\ loader' \in {"offlineGames", "catchOfflineGames"}
  /\ loader' # loader

\* The list shown is the one get_offline_games returned.
FromOfflineCopy ==
  /\ loadOfflineGames # NoResult
  /\ games = loadOfflineGames.games
  /\ gameStatus = loadOfflineGames.status

\* C18 as stated: a load in which the network was offline or any step threw,
\* the scan included, ends in offline mode with the list of the offline copy
\* and without the error screen.
C18_AlwaysFromOfflineCopy ==
  [][(LoadEnds /\ (isOfflineMode' \/ scanError')) =>
       (isOfflineMode /\ FromOfflineCopy /\ ~ErrorScreen)']_vars

\* C18: when the network check says offline or a step of the load outside
\* the scan's own try throws, the launcher is put in offline mode and the
\* error is cleared; such a load ends in offline mode without the error
\* screen, and with the list of the offline copy if get_offline_games
\* returned one.
C18_OfflineFallback ==
  /\ [][FallsBack => isOfflineMode' /\ error' = "null"]_vars
  /\ [][(LoadEnds /\ isOfflineMode') =>
          /\ ~ErrorScreen'
          /\ loadOfflineGames' # NoResult => FromOfflineCopy']_vars
  /\ [][(LoadEnds /\ ~isOfflineMode') =>
          loadOfflineGames' = NoResult /\ loadGamesResult' # NoResult]_vars

\* A load whose get_startup_status threw after the scanned list was shown has
\* ended in offline mode with the list of the offline copy.
C18_Witness ==
  /\ loader = "idle" /\ ~isLoading /\ isOfflineMode
  /\ loadGamesResult # NoResult
  /\ FromOfflineCopy /\ games # {}

\* An invocation of part_001 enters handleDownloadGame.
SessionStarts001 ==
  \E s \in Slots : ops001'[s].pc = "download" /\ ops001[s].pc # "download"

\* The only invocation of part_001 in flight is s.
Alone001(s) ==
  /\ ops001[s].pc # "idle"
  /\ \A r \in Slots \ {s} : ops001[r].pc = "idle"

\* C19: while one install session is the only one in flight and has not
\* ended, the progress it reports does not decrease from one sample to the
\* next.
C19_ProgressNonDecreasing ==
  [][\A s \in Slots :
       (/\ Alone001(s) /\ Alone001(s)'
        /\ ~SessionStarts001
        /\ downloadProgress001 # NoProgress001
        /\ downloadProgress001' # NoProgress001)
       => downloadProgress001'.progress >= downloadProgress001.progress]_vars

\* The invocations of part_001 in flight for the game the progress names.
Reported001 ==
  {s \in Slots : /\ ops001[s].pc # "idle"
                 /\ ops001[s].gameId = downloadProgress001.gameId}

\* C20: the progress of a session is marked extracting only once the
\* session's download_game has returned, extracting is entered from
\* downloading, and a session's phase never goes back from extracting to
\* downloading.
C20_ExtractingAfterDownload ==
  /\ [](downloadProgress001.status = "extracting" =>
          \A s \in Reported001 : ops001[s].pc # "download")
  /\ [][(/\ downloadProgress001'.status = "extracting"
         /\ downloadProgress001.status # "extracting")
        => downloadProgress001.status = "downloading"]_vars
  /\ [][(/\ downloadProgress001.status = "extracting"
         /\ ~SessionStarts001)
        => downloadProgress001'.status # "downloading"]_vars

\* A step of the front end that ends the install in record s while its
\* download is awaited, the install having neither completed nor failed.
CancelStep(s) ==
  /\ Next
  /\ ops'[s] = IdleOp
  /\ finished'.outcome \notin {"success", "failed"}

\* C21: an install whose download is in flight can be cancelled: the front
\* end has a step that returns its session to idle without another source
\* being tried and without the session completing or failing.
C21_InstallCanBeCancelled ==
  \A s \in Slots :
    (ops[s].kind = "install" /\ ops[s].pc = "download")
      => ENABLED CancelStep(s)

\* A tick of the connection check completes.
TickEnds == probe.pc # "idle" /\ probe'.pc = "idle"

C23_WindowFallback ==
  /\ [](windowOp.handler # "none" =>
          LET n == Len(windowOp.issued)
              plain == IF windowOp.handler = "close" THEN "close_window"
                       ELSE "minimize_window" IN
          /\ n \in {1, 2}
          /\ windowOp.issued[1] =
               (IF windowOp.tray THEN "hide_window" ELSE plain)
          /\ (n = 2) = (Len(windowOp.failed) >= 1)
          /\ n = 2 => /\ windowOp.issued[2] = plain
                      /\ windowOp.failed[1] = windowOp.issued[1]
          /\ ~windowOp.propagated)
  /\ [][(windowOp.pc # "first" /\ windowOp'.pc = "first")
          => windowOp'.tray = minimizeToTray]_vars

\* With the tray setting on, hide_window failed and the close_window of the
\* fallback has closed the window.
C23_Witness ==
  /\ windowOp.handler = "close" /\ windowOp.tray
  /\ windowOp.issued = <<"hide_window", "close_window">>
  /\ windowOp.pc = "closed"

\* C24: the current language is the stored one if the launcher has it and
\* 'en' otherwise, a stored value only ever changes to the language just
\* chosen, and a mount of the hook leaves the stored value alone.
C24_LanguageRoundTrips ==
  /\ [](currentLanguage =
          IF storage \in {"en", "vi"} THEN storage ELSE "en")
  /\ [][storage' # storage =>
          storage' \in {"en", "vi"} /\ currentLanguage' = storage']_vars

\* The awaits and the rest states of the three loadLauncher variants.
LoaderIdle == {"idle", "p1idle", "p3idle"}
LoaderFirstAwait == {"net", "p1games", "p3net"}

\* C25: a load always ends with isLoading false, and isLoading only becomes
\* true again by a call of loadLauncher.
C25_LoadingEnds ==
  /\ (isLoading ~> ~isLoading)
  /\ [](loader \in LoaderIdle => ~isLoading)
  /\ [][(~isLoading /\ isLoading') =>
          loader \in LoaderIdle /\ loader' \in LoaderFirstAwait]_vars

\* The load of App.tsx has ended after a step of the online load threw and
\* get_offline_games threw as well.
C25_Witness ==
  /\ loader = "idle" /\ ~isLoading /\ isOfflineMode
  /\ loadGamesResult # NoResult /\ loadOfflineGames = NoResult

\* C26: every interval started by handleDownloadGame of part_001 is stopped
\* when its invocation leaves the download, by failure as well as by success:
\* a live interval belongs to an invocation still awaiting download_game.
C26_TimerStoppedOnExit ==
  \A t \in intervals001 : t \in Slots /\ ops001[t].pc = "download"

\* C27: a live progress record of part_001 is at most 95 while downloading
\* and exactly 100 while extracting.
C27_ProgressRange ==
  downloadProgress001 # NoProgress001 =>
    /\ downloadProgress001.status = "downloading" =>
         downloadProgress001.progress <= 95
    /\ downloadProgress001.status = "extracting" =>
         downloadProgress001.progress = 100

\* C28: no install and no update check is in flight for a game whose status
\* is coming_soon.
C28_NoCommandForComingSoon ==
  \A s \in Slots :
    (ops[s].kind \in {"install", "update"} /\ InFlight(s)) =>
      manifest[ops[s].gameId].status # "coming_soon"

\* C29: an install request for a game with no download sources returns
\* without effect: no download is invoked, and the downloading marker, the
\* progress map, the games list and the invocations in flight are unchanged.
C29_NoSourcesNoEffect ==
  [][(finished' # finished /\ finished'.outcome = "nosources") =>
       /\ finished'.attempts = <<>>
       /\ UNCHANGED <<downloading, downloadProgress, games, ops>>]_vars

\* The install of a game without sources has returned.
C29_Witness ==
  /\ finished.kind = "install" /\ finished.outcome = "nosources"
  /\ manifest[finished.gameId].download_urls = <<>>
  /\ downloading = NoGame

\* C30: an online refresh of the games list that did not fall back from a
\* failed scan keeps the executable path shown for every game on disk.
C30_ScanResultKept ==
  [][(games' # games /\ ~isOfflineMode' /\ ~scanError') =>
       \A g \in GameIds :
         (installed[g] # 0 /\ GameInfo(g, TRUE) \in games) =>
           GameInfo(g, TRUE) \in games']_vars

====
